---- MODULE Spec2Model ----
(***************************************************************************)
(* Model of the hospital operations backend (src/main.py, src/schemas.py). *)
(* The document store is a set of collections, one variable each; every    *)
(* request handler of main.py is one action that performs the handler's    *)
(* store reads and writes in the order of the code.                        *)
(***************************************************************************)
EXTENDS Integers, Sequences, FiniteSets, TLC

(* ------------------------------ bounds -------------------------------- *)
\* largest bed_count of the room whose initial state is drawn
MaxBeds == 2
\* number of requests served in one behaviour
MaxCalls == 3
\* number of triage events persisted in one behaviour
MaxTriage == 1
\* longest prescription item list
MaxItems == 2

(* ------------------------- optional values ---------------------------- *)
\* Python's None and a present value: a sequence of length 0 or 1
None == <<>>
Some(x) == <<x>>

(* ------------------------------ state --------------------------------- *)
VARIABLES
  room,          \* collection "room": code -> [bed_count, occupied_beds]
  admission,     \* collection "admission": sequence of documents
  patient,       \* collection "patient"
  triageevent,   \* collection "triageevent"
  procedure,     \* collection "procedure"
  labresult,     \* collection "labresult"
  inventoryitem, \* collection "inventoryitem": sku -> stock, for the skus on record
  prescription,  \* collection "prescription"
  auditlog,      \* collection "auditlog": sequence of AuditLog documents
  room0,         \* the room collection before the first request
  next_id,       \* the next identifier the store generates
  ncalls,        \* requests served so far
  resp,          \* the last request and the response it got
  proc           \* concurrent requests: each one's position and locals

vars == <<room, admission, patient, triageevent, procedure, labresult,
          inventoryitem, prescription, auditlog, room0, next_id, ncalls, resp,
          proc>>

\* the collections no handler of main.py writes
readonly == <<inventoryitem, prescription, room0>>
\* the collections written by the create-only endpoints
others == <<patient, triageevent, procedure, labresult>>

(* ------------------------------ inputs -------------------------------- *)
\* room codes on record, and one that is not
RoomCodes == {"A1", "B2"}
UnknownCode == "ZZ"
\* Room: bed_count: int = 1, occupied_beds: int = 0
Room(bc, ob) == [bed_count |-> bc, occupied_beds |-> ob]
\* the failure points of a handler with n store writes: 0 = every write
\* completes, k = the handler's k-th store write raises
FailPoints(n) == 0..n

\* Admission payloads: end is Optional[datetime] = None, and is the client's
Admission(pid, code, e) == [patient_id |-> pid, room_code |-> code, end |-> e]
AdmissionPayloads ==
  { Admission("p1", c, e) : c \in RoomCodes \cup {UnknownCode},
                            e \in {None, Some("t0")} }

(* ------------------------- the document store ------------------------- *)
\* insert_one: the document as stored, with its generated _id
NewDoc(id, data) == [_id |-> id] @@ data
\* db[coll].find_one({"code": code}) on the room collection
FindRoom(rm, code) == IF code \in DOMAIN rm THEN Some(rm[code]) ELSE None
\* lines 113-116: the two find_one calls of discharge, which look the
\* admission up by the identifier in the path; the result is its position
FindAdmission(adm, id) ==
  IF \E i \in 1..Len(adm) : adm[i]._id = id
  THEN Some(CHOOSE i \in 1..Len(adm) : adm[i]._id = id)
  ELSE None
\* a $set where the $inc should be
SetOccupied(rm, code, d) ==
  IF code \in DOMAIN rm
  THEN [rm EXCEPT ![code].occupied_beds = d]
  ELSE rm
\* update_one({"code": code}, {"$inc": {"occupied_beds": d}})
IncOccupied(rm, code, d) ==
  IF code \in DOMAIN rm
  THEN [rm EXCEPT ![code].occupied_beds = @ + d]
  ELSE rm
\* update_one({"_id": ...}, {"$set": {"end": now}})
SetEnd(adm, i) == [adm EXCEPT ![i].end = Some("now")]

(* ----------------------------- audit ---------------------------------- *)
AuditLog(action, entity, entity_id, meta) ==
  [actor_id |-> None, action |-> action, entity |-> entity,
   entity_id |-> Some(entity_id), meta |-> meta]
\* a write that replaces the log
OverwriteAudit(log, entry) == <<entry>>
\* create_document("auditlog", entry)
RecordAudit(log, entry) == Append(log, entry)

(* ---------------------------- responses ------------------------------- *)
Response(op, req, f, status, body) ==
  [op |-> op, req |-> req, fail |-> f, status |-> status, body |-> body]

Served == /\ ncalls < MaxCalls
          /\ ncalls' = ncalls + 1

\* writes that are all undone when one raises
AppliedOrUndone(f, k) == f = 0
\* A handler's store writes are consecutive statements with no try/except:
\* when the f-th raises (f = 0: none does), the k-th has taken effect exactly
\* if it comes before it, and nothing undoes it.
Applied(f, k) == f = 0 \/ k < f
\* the response of a handler that reached its writes: FastAPI answers an
\* uncaught exception with 500
Outcome(op, req, f, body) ==
  IF f = 0 THEN Response(op, req, 0, 200, body)
  ELSE Response(op, req, f, 500, "Internal Server Error")
\* identifiers used up by a create-then-audit handler whose writes are
\* numbered c (the create) and a (the audit)
Issued(f, c, a) == (IF Applied(f, c) THEN 1 ELSE 0) + (IF Applied(f, a) THEN 1 ELSE 0)

(* ------------------------- POST /admissions --------------------------- *)
\* a write-back of the value the handler read at line 99, plus one
WriteBackBed(rm, seen, code) ==
  [rm EXCEPT ![code].occupied_beds = seen.occupied_beds + 1]
\* line 105: the store adds 1 to the value on record, whatever the room
\* document `seen` that the handler read at line 99 said
CountBed(rm, seen, code) == IncOccupied(rm, code, 1)
\* the capacity test off by one
NoAvailableBedStrict(r) == r.occupied_beds > r.bed_count
\* line 102: no bed is available
NoAvailableBed(r) == r.occupied_beds >= r.bed_count

create_admission(payload, f) ==
  /\ Served
  /\ UNCHANGED <<others, readonly, proc>>
  /\ LET found == FindRoom(room, payload.room_code)
         aid   == next_id
         op    == "create_admission"
     IN
     IF found = None THEN
       /\ resp' = Response(op, payload, 0, 404, "Room not found")
       /\ UNCHANGED <<room, admission, auditlog, next_id>>
     ELSE IF NoAvailableBed(found[1]) THEN
       /\ resp' = Response(op, payload, 0, 409, "No available bed")
       /\ UNCHANGED <<room, admission, auditlog, next_id>>
     ELSE
       /\ admission' = IF Applied(f, 1)
                       THEN Append(admission, NewDoc(aid, payload))
                       ELSE admission
       /\ room' = IF Applied(f, 2)
                  THEN CountBed(room, found[1], payload.room_code)
                  ELSE room
       /\ auditlog' = IF Applied(f, 3)
                      THEN RecordAudit(auditlog,
                             AuditLog("create", "admission", aid, <<>>))
                      ELSE auditlog
       /\ next_id' = next_id + Issued(f, 1, 3)
       /\ resp' = Outcome(op, payload, f, [id |-> aid])

(* ------------------ POST /admissions/{id}/discharge ------------------- *)
discharge(admission_id, f) ==
  /\ Served
  /\ UNCHANGED <<others, readonly, proc>>
  /\ LET found == FindAdmission(admission, admission_id)
         op    == "discharge"
     IN
     IF found = None THEN
       /\ resp' = Response(op, admission_id, 0, 404, "Admission not found")
       /\ UNCHANGED <<room, admission, auditlog, next_id>>
     ELSE
       /\ room' = IF Applied(f, 1)
                  THEN IncOccupied(room, admission[found[1]].room_code, -1)
                  ELSE room
       /\ admission' = IF Applied(f, 2)
                       THEN SetEnd(admission, found[1])
                       ELSE admission
       /\ auditlog' = IF Applied(f, 3)
                      THEN RecordAudit(auditlog,
                             AuditLog("update", "admission", admission_id,
                                      [op |-> "discharge"]))
                      ELSE auditlog
       /\ next_id' = next_id + (IF Applied(f, 3) THEN 1 ELSE 0)
       /\ resp' = Outcome(op, admission_id, f, [status |-> "ok"])

\* the identifiers a client can send: those on record and one that is not
AdmissionIds == { admission[i]._id : i \in 1..Len(admission) } \cup {next_id}

\* the body shared by the endpoints that create one document and audit it
CreateAndAudit(f, coll, data, entity, meta) ==
  LET id == next_id IN
  /\ coll' = IF Applied(f, 1) THEN Append(coll, NewDoc(id, data)) ELSE coll
  /\ auditlog' = IF Applied(f, 2)
                 THEN RecordAudit(auditlog, AuditLog("create", entity, id, meta))
                 ELSE auditlog
  /\ next_id' = next_id + Issued(f, 1, 2)

(* --------------------------- POST /patients --------------------------- *)
PatientPayloads == { [national_mrn |-> "m1"] }

create_patient(payload, f) ==
  /\ Served
  /\ UNCHANGED <<room, admission, triageevent, procedure, labresult,
                 readonly, proc>>
  /\ CreateAndAudit(f, patient, payload, "patient", [source |-> "api"])
  /\ resp' = Outcome("create_patient", payload, f, [id |-> next_id])

(* ---------------------------- POST /triage ---------------------------- *)
\* TriageEvent: gcs: Optional[int] (ge=3, le=15); vital_signs: a dict that
\* may or may not hold "spo2", whose value may be None
GcsMin == 3
GcsMax == 15
AutoConsent == "auto_consent_emergency_protocol"
TriageEvent(g, vs, c, fl) ==
  [patient_id |-> "p1", gcs |-> g, vital_signs |-> vs,
   consent_emergency_protocol |-> c, critical_flags |-> fl]
VitalSigns == {<<>>} \cup { [k \in {"spo2"} |-> v] :
                            v \in {None, Some(89), Some(90), Some(91)} }
FlagLists == {<<>>, <<"fall_risk">>, <<AutoConsent>>}
TriagePayloads ==
  { TriageEvent(g, vs, c, fl) :
      g \in {None} \cup { Some(n) : n \in GcsMin..GcsMax },
      vs \in VitalSigns, c \in BOOLEAN, fl \in FlagLists }
\* the few payloads used where triage is one endpoint among the others
TriageSample ==
  { TriageEvent(g, <<>>, FALSE, <<>>) : g \in {None, Some(GcsMin)} }

\* line 85: payload.vital_signs.get("spo2") if payload.vital_signs else None
Spo2Of(payload) ==
  IF "spo2" \in DOMAIN payload.vital_signs
  THEN payload.vital_signs["spo2"]
  ELSE None
\* the same with a gcs test that misses 8
IsCriticalBelow(payload) ==
  LET c1 == payload.gcs # None /\ payload.gcs[1] < 8
      spo2 == Spo2Of(payload)
  IN  IF spo2 # None /\ spo2[1] < 90 THEN TRUE ELSE c1
\* lines 82-87: critical starts False and each test may set it
IsCritical(payload) ==
  LET c0 == FALSE
      c1 == IF payload.gcs # None /\ payload.gcs[1] <= 8 THEN TRUE ELSE c0
      spo2 == Spo2Of(payload)
  IN  IF spo2 # None /\ spo2[1] < 90 THEN TRUE ELSE c1
\* lines 81, 88-90: the document that is persisted
TriageData(payload) ==
  IF IsCritical(payload) /\ ~payload.consent_emergency_protocol
  THEN [payload EXCEPT !.consent_emergency_protocol = TRUE,
                       !.critical_flags = Append(@, AutoConsent)]
  ELSE payload

triage(payload, f) ==
  /\ Served
  /\ Len(triageevent) < MaxTriage
  /\ UNCHANGED <<room, admission, patient, procedure, labresult,
                 readonly, proc>>
  /\ CreateAndAudit(f, triageevent, TriageData(payload), "triageevent", <<>>)
  /\ resp' = Outcome("triage", payload, f,
               [id |-> next_id, critical |-> IsCritical(payload),
                consent |-> TriageData(payload).consent_emergency_protocol])

(* -------------------------- POST /procedures -------------------------- *)
Procedure(rs, sb) ==
  [patient_id |-> "p1", requires_sterile |-> rs, sterile_batch |-> sb,
   cssd_return_due |-> None]
ProcedurePayloads ==
  { Procedure(rs, sb) : rs \in BOOLEAN, sb \in {None, Some("B1")} }
\* Python truthiness of an Optional[str]
Truthy(s) == s # None /\ s # Some("")
\* lines 127-130
ProcedureData(payload) ==
  IF payload.requires_sterile /\ ~Truthy(payload.sterile_batch)
  THEN [payload EXCEPT !.sterile_batch = Some("AUTO-now"),
                       !.cssd_return_due = Some("now+8h")]
  ELSE payload

create_procedure(payload, f) ==
  /\ Served
  /\ UNCHANGED <<room, admission, patient, triageevent, labresult,
                 readonly, proc>>
  /\ CreateAndAudit(f, procedure, ProcedureData(payload), "procedure", <<>>)
  /\ resp' = Outcome("create_procedure", payload, f, [id |-> next_id])

(* -------------------- POST /labs/external/callback -------------------- *)
LabResultPayloads == { [order_id |-> "o1", status |-> s] :
                       s \in {"completed", "partial"} }

external_lab_result(payload, f) ==
  /\ Served
  /\ UNCHANGED <<room, admission, patient, triageevent, procedure,
                 readonly, proc>>
  /\ CreateAndAudit(f, labresult, payload, "labresult",
                    [source |-> "external"])
  /\ resp' = Outcome("external_lab_result", payload, f, [id |-> next_id])

(* ----------------------- POST /pharmacy/validate ---------------------- *)
\* prescription items: dicts whose "drug" and "sku" may be missing or empty
Item(d, k) == [drug |-> d, sku |-> k]
Items == { Item(d, k) : d \in {None, Some(""), Some("X")}, k \in {None, Some("Y")} }
RECURSIVE SeqsUpTo(_, _)
SeqsUpTo(S, n) ==
  IF n = 0 THEN {<<>>}
  ELSE SeqsUpTo(S, n - 1) \cup
       { Append(q, x) : q \in { r \in SeqsUpTo(S, n - 1) : Len(r) = n - 1 }, x \in S }
Prescription(items) == [patient_id |-> "p1", items |-> items, status |-> "draft"]
PrescriptionRequests == { Prescription(items) : items \in SeqsUpTo(Items, MaxItems) }

\* line 147: it.get("drug") or it.get("sku")
Resolve(it) == IF Truthy(it.drug) THEN it.drug ELSE it.sku
\* line 148: db["inventoryitem"].find_one({"sku": sku})
FindInventory(inv, sku) ==
  IF sku # None /\ sku[1] \in DOMAIN inv THEN Some(inv[sku[1]]) ELSE None
\* a stock test that lets an empty shelf pass
OutOfStockNegative(inv, sku) ==
  FindInventory(inv, sku) = None \/ FindInventory(inv, sku)[1].stock < 0
\* line 149: not inv or inv.get("stock", 0) <= 0
OutOfStock(inv, sku) ==
  FindInventory(inv, sku) = None \/ FindInventory(inv, sku)[1].stock <= 0
\* lines 145-150: the loop over the items
RECURSIVE CheckStock(_, _)
CheckStock(inv, items) ==
  IF items = <<>> THEN <<>>
  ELSE LET sku  == Resolve(Head(items))
           rest == CheckStock(inv, Tail(items))
       IN  IF OutOfStock(inv, sku) THEN <<sku>> \o rest ELSE rest
\* line 151
StockStatus(out_of_stock) ==
  IF out_of_stock = <<>> THEN "validated" ELSE "out_of_stock_external"

validate_prescription(req) ==
  /\ Served
  /\ resp' = Response("validate_prescription", req, 0, 200,
               [status |-> StockStatus(CheckStock(inventoryitem, req.items)),
                out_of_stock |-> CheckStock(inventoryitem, req.items)])
  /\ UNCHANGED <<room, admission, others, readonly, auditlog, next_id, proc>>

(* ------------------------ concurrent requests ------------------------- *)
\* number of requests in flight together
NRequests == 2
Requests == 1..NRequests
\* a request in flight: its handler, its position in it, the room document
\* it read, the admission it inserted or found, and its response status
AdmitRequest == [kind |-> "admit", pc |-> "find_room", seen |-> None,
                 adm |-> None, status |-> 0]
DischargeRequest == [kind |-> "discharge", pc |-> "find_admission", seen |-> None,
                     adm |-> None, status |-> 0]
\* the admit and the discharge the concurrent requests send
ConcPayload == Admission("p1", "A1", None)
Goto(p, pc) == proc' = [proc EXCEPT ![p].pc = pc]
Finish(p, status) == proc' = [proc EXCEPT ![p].pc = "done", ![p].status = status]
At(p, kind, pc) == proc[p].kind = kind /\ proc[p].pc = pc
\* what the concurrent steps leave alone
sequential == <<others, readonly, ncalls, resp>>

\* lines 99-103: the read of the room and the capacity test
AdmitFindRoom(p) ==
  /\ At(p, "admit", "find_room")
  /\ LET found == FindRoom(room, ConcPayload.room_code) IN
     IF found = None THEN Finish(p, 404)
     ELSE IF NoAvailableBed(found[1]) THEN Finish(p, 409)
     ELSE proc' = [proc EXCEPT ![p].pc = "insert", ![p].seen = found]
  /\ UNCHANGED <<room, admission, auditlog, next_id, sequential>>
\* line 104
AdmitInsert(p) ==
  /\ At(p, "admit", "insert")
  /\ admission' = Append(admission, NewDoc(next_id, ConcPayload))
  /\ next_id' = next_id + 1
  /\ proc' = [proc EXCEPT ![p].pc = "inc", ![p].adm = Some(next_id)]
  /\ UNCHANGED <<room, auditlog, sequential>>
\* line 105
AdmitInc(p) ==
  /\ At(p, "admit", "inc")
  /\ room' = CountBed(room, proc[p].seen[1], ConcPayload.room_code)
  /\ Goto(p, "audit")
  /\ UNCHANGED <<admission, auditlog, next_id, sequential>>
\* lines 106-107
AdmitAudit(p) ==
  /\ At(p, "admit", "audit")
  /\ auditlog' = RecordAudit(auditlog,
                   AuditLog("create", "admission", proc[p].adm[1], <<>>))
  /\ next_id' = next_id + 1
  /\ Finish(p, 200)
  /\ UNCHANGED <<room, admission, sequential>>
\* lines 113-118: the lookup of the admission, here the one on record at the
\* start
DischargeFind(p) ==
  /\ At(p, "discharge", "find_admission")
  /\ LET found == FindAdmission(admission, admission[1]._id) IN
     IF found = None THEN Finish(p, 404)
     ELSE proc' = [proc EXCEPT ![p].pc = "dec", ![p].adm = found]
  /\ UNCHANGED <<room, admission, auditlog, next_id, sequential>>
\* line 119
DischargeDec(p) ==
  /\ At(p, "discharge", "dec")
  /\ room' = IncOccupied(room, admission[proc[p].adm[1]].room_code, -1)
  /\ Goto(p, "set_end")
  /\ UNCHANGED <<admission, auditlog, next_id, sequential>>
\* line 120
DischargeSetEnd(p) ==
  /\ At(p, "discharge", "set_end")
  /\ admission' = SetEnd(admission, proc[p].adm[1])
  /\ Goto(p, "audit")
  /\ UNCHANGED <<room, auditlog, next_id, sequential>>
\* lines 121-122
DischargeAudit(p) ==
  /\ At(p, "discharge", "audit")
  /\ auditlog' = RecordAudit(auditlog,
                   AuditLog("update", "admission",
                            admission[proc[p].adm[1]]._id, [op |-> "discharge"]))
  /\ next_id' = next_id + 1
  /\ Finish(p, 200)
  /\ UNCHANGED <<room, admission, sequential>>

(* --------------------------- specifications --------------------------- *)
\* the store before the first request, given its rooms and inventory
Start(rooms, inv, presc) ==
  /\ room = rooms
  /\ room0 = rooms
  /\ admission = <<>>
  /\ patient = <<>>
  /\ triageevent = <<>>
  /\ procedure = <<>>
  /\ labresult = <<>>
  /\ inventoryitem = inv
  /\ prescription = presc
  /\ auditlog = <<>>
  /\ next_id = 1
  /\ ncalls = 0
  /\ resp = Response("none", None, 0, 0, None)
  /\ proc = <<>>

\* room A1 in any state the Room invariant allows, room B2 as the schema
\* creates it
Init ==
  \E bc \in 0..MaxBeds : \E ob \in 0..bc :
    Start([c \in RoomCodes |-> IF c = "A1" THEN Room(bc, ob) ELSE Room(1, 0)],
          <<>>, <<>>)

\* the admission ledger with every store write completing
Admit == \E payload \in AdmissionPayloads : create_admission(payload, 0)
Discharge == \E id \in AdmissionIds : discharge(id, 0)

Next == \/ Admit
        \/ Discharge

Spec == Init /\ [][Next]_vars

\* the admission ledger with store writes that may raise
AdmitFault == \E payload \in AdmissionPayloads : \E f \in FailPoints(3) :
                create_admission(payload, f)
DischargeFault == \E id \in AdmissionIds : \E f \in FailPoints(3) :
                    discharge(id, f)

NextFault == \/ AdmitFault
             \/ DischargeFault

SpecFault == Init /\ [][NextFault]_vars

\* every mutating endpoint, with writes that may raise, against rooms as the
\* Room schema creates them
InitApi == Start([c \in RoomCodes |-> Room(1, 0)], <<>>, <<>>)

CreatePatient == \E payload \in PatientPayloads : \E f \in FailPoints(2) :
                   create_patient(payload, f)
Triage == \E payload \in TriageSample : \E f \in FailPoints(2) :
            triage(payload, f)
CreateProcedure == \E payload \in ProcedurePayloads : \E f \in FailPoints(2) :
                     create_procedure(payload, f)
LabCallback == \E payload \in LabResultPayloads : \E f \in FailPoints(2) :
                 external_lab_result(payload, f)

NextApi == \/ AdmitFault
           \/ DischargeFault
           \/ CreatePatient
           \/ Triage
           \/ CreateProcedure
           \/ LabCallback

SpecApi == InitApi /\ [][NextApi]_vars

\* the triage rule over every payload
TriageAll == \E payload \in TriagePayloads : triage(payload, 0)

NextTriage == TriageAll

SpecTriage == InitApi /\ [][NextTriage]_vars
\* the pharmacy check over every item list and inventory
Stocks == {-1, 0, 1}
Inventories ==
  UNION { [skus -> { [stock |-> n] : n \in Stocks }] : skus \in SUBSET {"X", "Y"} }
InitPharmacy ==
  \E inv \in Inventories :
    Start([c \in RoomCodes |-> Room(1, 0)], inv,
          <<NewDoc("rx1", Prescription(<<Item(Some("X"), None)>>))>>)

Validate == \E req \in PrescriptionRequests : validate_prescription(req)

NextPharmacy == Validate

SpecPharmacy == InitPharmacy /\ [][NextPharmacy]_vars

\* admit and discharge requests in flight together against room A1, which
\* holds one open admission at the start; each store read and each store
\* write is one step
InitConc ==
  \E bc \in 1..MaxBeds : \E ob \in 1..bc :
    /\ room = [c \in RoomCodes |-> IF c = "A1" THEN Room(bc, ob) ELSE Room(1, 0)]
    /\ room0 = room
    /\ admission = <<NewDoc(1, ConcPayload)>>
    /\ next_id = 2
    /\ patient = <<>>
    /\ triageevent = <<>>
    /\ procedure = <<>>
    /\ labresult = <<>>
    /\ inventoryitem = <<>>
    /\ prescription = <<>>
    /\ auditlog = <<>>
    /\ ncalls = 0
    /\ resp = Response("none", None, 0, 0, None)
    /\ proc \in [Requests -> {AdmitRequest, DischargeRequest}]

NextConc ==
  \E p \in Requests :
    \/ AdmitFindRoom(p)
    \/ AdmitInsert(p)
    \/ AdmitInc(p)
    \/ AdmitAudit(p)
    \/ DischargeFind(p)
    \/ DischargeDec(p)
    \/ DischargeSetEnd(p)
    \/ DischargeAudit(p)

SpecConc == InitConc /\ [][NextConc]_vars

(* ============================ properties ============================== *)
\* the open admissions of room c: those whose end is null
OpenCount(c) ==
  Cardinality({ i \in 1..Len(admission) :
                  admission[i].room_code = c /\ admission[i].end = None })
\* the step serves a request of endpoint op
IsCall(op) == ncalls' = ncalls + 1 /\ resp'.op = op
\* the step serves an admit for room c
AdmitTo(c) == IsCall("create_admission") /\ resp'.req.room_code = c
\* the step serves a discharge of the admission at position i
DischargeOf(i) == IsCall("discharge") /\ resp'.req = admission[i]._id
Full(r) == r.occupied_beds >= r.bed_count

\* C1: every room's occupied_beds stays within [0, bed_count] after any
\* sequence of admit and discharge calls, repeated discharges included.
OccupiedWithinBounds ==
  \A c \in DOMAIN room :
    0 <= room[c].occupied_beds /\ room[c].occupied_beds <= room[c].bed_count

\* C2: an admit for a room on record whose occupied_beds >= bed_count is
\* answered 409 and changes no room, creates no admission and appends no
\* audit entry.
FullRoomAdmitRejected ==
  [][ \A c \in DOMAIN room :
        (AdmitTo(c) /\ Full(room[c]))
        => /\ resp'.status = 409
           /\ UNCHANGED <<room, admission, auditlog>> ]_vars
\* a second admit to a room filled by a first one was answered 409
FullRoomAdmitRejectedWitness ==
  /\ resp.op = "create_admission"
  /\ resp.status = 409
  /\ Len(admission) = 1
  /\ admission[1].room_code = resp.req.room_code
  /\ room[resp.req.room_code].occupied_beds = room[resp.req.room_code].bed_count

\* the position of the audit write among a handler's store writes
AuditWriteOf(op) == IF op \in {"create_admission", "discharge"} THEN 3 ELSE 2

\* C3: a failing audit write never fails the endpoint: whenever the audit
\* write of a request raised, the caller still got the success response.
AuditFailureSwallowed ==
  (resp.op # "none" /\ resp.fail = AuditWriteOf(resp.op)) => resp.status = 200

\* C4: from a store with no admissions and occupied_beds = 0 everywhere,
\* each room's occupied_beds equals its number of open admissions (stated
\* here for the stores in which no admission carries an end sent by the
\* client, so that every admission was created open).
OccupiedEqualsOpen ==
  (/\ \A c \in DOMAIN room0 : room0[c].occupied_beds = 0
   /\ \A i \in 1..Len(admission) : admission[i].end # Some("t0"))
  => \A c \in DOMAIN room : room[c].occupied_beds = OpenCount(c)

\* the admit was answered 200, stored the payload with end e under the
\* returned id and raised room c's occupied_beds by exactly 1
Admitted(c, e) ==
  /\ resp'.status = 200
  /\ admission' = Append(admission,
                         NewDoc(resp'.body.id, [resp'.req EXCEPT !.end = e]))
  /\ room' = [room EXCEPT ![c].occupied_beds = @ + 1]
\* a discharge of an open admission in a full room lowers occupied_beds by
\* one, and a room with a free bed keeps one until the next admit to it
DischargeFreesBed ==
  /\ \A i \in 1..Len(admission) :
       LET c == admission[i].room_code IN
       (DischargeOf(i) /\ resp'.status = 200 /\ admission[i].end = None
          /\ room[c].occupied_beds = room[c].bed_count)
       => /\ room'[c].occupied_beds = room[c].occupied_beds - 1
          /\ ~Full(room'[c])
  /\ \A c \in DOMAIN room :
       (~Full(room[c]) /\ ~AdmitTo(c)) => ~Full(room'[c])

Mutating == {"create_patient", "triage", "create_admission", "discharge",
             "create_procedure", "external_lab_result"}
EntityOf(op) ==
  CASE op = "create_patient" -> "patient"
    [] op = "triage" -> "triageevent"
    [] op \in {"create_admission", "discharge"} -> "admission"
    [] op = "create_procedure" -> "procedure"
    [] op = "external_lab_result" -> "labresult"
Docs(entity) ==
  CASE entity = "patient" -> patient
    [] entity = "triageevent" -> triageevent
    [] entity = "admission" -> admission
    [] entity = "procedure" -> procedure
    [] entity = "labresult" -> labresult

\* C8: a successful call of a mutating endpoint appends exactly one audit
\* entry naming its action, entity kind and entity id, and no step changes
\* or removes an entry already in the log.
AuditOnSuccess ==
  [][ /\ Len(auditlog') >= Len(auditlog)
      /\ SubSeq(auditlog', 1, Len(auditlog)) = auditlog
      /\ \A op \in Mutating :
           (IsCall(op) /\ resp'.status = 200)
           => LET e  == auditlog'[Len(auditlog')]
                  id == IF op = "discharge" THEN resp'.req ELSE resp'.body.id
              IN  /\ Len(auditlog') = Len(auditlog) + 1
                  /\ e.action = (IF op = "discharge" THEN "update" ELSE "create")
                  /\ e.entity = EntityOf(op)
                  /\ e.entity_id = Some(id)
                  /\ \E i \in 1..Len(Docs(EntityOf(op))') :
                       Docs(EntityOf(op))'[i]._id = id
    ]_vars
\* three successful calls left three entries, the last one a discharge's
AuditOnSuccessWitness ==
  /\ resp.op = "discharge"
  /\ resp.status = 200
  /\ Len(auditlog) = 3
  /\ auditlog[3].action = "update"
  /\ auditlog[3].entity_id = Some(resp.req)

\* C10: when the second store write of admit or discharge raises, the first
\* write stays and the second is not applied: a failed admit leaves the
\* Admission on record with no bed counted, a failed discharge leaves the
\* bed released with the Admission's end still null; no step removes an
\* admission.
NoRollback ==
  [][ /\ \A c \in DOMAIN room :
           (AdmitTo(c) /\ resp'.fail = 2)
           => /\ resp'.status = 500
              /\ admission' = Append(admission, NewDoc(next_id, resp'.req))
              /\ UNCHANGED <<room, auditlog>>
      /\ \A i \in 1..Len(admission) :
           (DischargeOf(i) /\ resp'.fail = 2)
           => /\ resp'.status = 500
              /\ room' = [room EXCEPT
                            ![admission[i].room_code].occupied_beds = @ - 1]
              /\ UNCHANGED <<admission, auditlog>>
      /\ Len(admission') >= Len(admission)
      /\ \A i \in 1..Len(admission) : admission'[i]._id = admission[i]._id
    ]_vars
\* an admit failed after storing the Admission, then its discharge failed
\* after releasing a bed: one open Admission, and occupied_beds one below
\* its initial value
NoRollbackWitness ==
  /\ resp.op = "discharge"
  /\ resp.fail = 2
  /\ Len(admission) = 1
  /\ admission[1].end = None
  /\ auditlog = <<>>
  /\ LET c == admission[1].room_code IN
       /\ OpenCount(c) = 1
       /\ room[c].occupied_beds = room0[c].occupied_beds - 1

\* C6: triage answers critical exactly when gcs is present and <= 8 or spo2
\* is present and < 90; when critical and the payload's consent is false the
\* persisted and returned consent is true and the auto-consent flag is
\* appended to the flags; otherwise consent and flags are persisted as sent.
TriageRule ==
  (resp.op = "triage" /\ resp.status = 200)
  => LET p    == resp.req
         doc  == triageevent[CHOOSE i \in 1..Len(triageevent) :
                               triageevent[i]._id = resp.body.id]
         gcs_low  == p.gcs # None /\ p.gcs[1] <= 8
         spo2_low == /\ "spo2" \in DOMAIN p.vital_signs
                     /\ p.vital_signs["spo2"] # None
                     /\ p.vital_signs["spo2"][1] < 90
     IN  /\ \E i \in 1..Len(triageevent) : triageevent[i]._id = resp.body.id
         /\ resp.body.critical = (gcs_low \/ spo2_low)
         /\ resp.body.consent = doc.consent_emergency_protocol
         /\ IF (gcs_low \/ spo2_low) /\ ~p.consent_emergency_protocol
            THEN /\ doc.consent_emergency_protocol = TRUE
                 /\ doc.critical_flags =
                      p.critical_flags \o <<"auto_consent_emergency_protocol">>
            ELSE /\ doc.consent_emergency_protocol = p.consent_emergency_protocol
                 /\ doc.critical_flags = p.critical_flags
\* gcs = 8 with a normal spo2 and no consent: critical, consent forced, flag
\* appended after the one already there
TriageRuleWitness ==
  /\ resp.op = "triage"
  /\ resp.status = 200
  /\ resp.req.gcs = Some(8)
  /\ resp.req.vital_signs = [k \in {"spo2"} |-> Some(91)]
  /\ ~resp.req.consent_emergency_protocol
  /\ resp.body.critical
  /\ resp.body.consent
  /\ triageevent[1].critical_flags =
       <<"fall_risk", "auto_consent_emergency_protocol">>

\* the identifier has no InventoryItem on record, or one with stock <= 0
Short(inv, id) ==
  \/ id = None
  \/ id[1] \notin DOMAIN inv
  \/ inv[id[1]].stock <= 0

\* C7: the pharmacy check returns, in item order, the identifiers of exactly
\* the items with no matching InventoryItem or with stock <= 0, the status
\* "validated" when there is none and "out_of_stock_external" otherwise, and
\* leaves the inventory and the prescriptions on record unchanged.
PharmacyCheck ==
  [][ IsCall("validate_prescription")
      => LET items == resp'.req.items
             ids   == [i \in 1..Len(items) |-> Resolve(items[i])]
             short == SelectSeq(ids, LAMBDA id : Short(inventoryitem, id))
         IN  /\ resp'.body.out_of_stock = short
             /\ resp'.body.status = (IF short = <<>> THEN "validated"
                                     ELSE "out_of_stock_external")
             /\ UNCHANGED <<inventoryitem, prescription>> ]_vars
\* X is on record with stock 0 and Y with stock 1: of the items Y, X only X
\* is reported
PharmacyCheckWitness ==
  /\ resp.op = "validate_prescription"
  /\ resp.req.items = <<Item(None, Some("Y")), Item(Some("X"), Some("Y"))>>
  /\ "X" \in DOMAIN inventoryitem /\ inventoryitem["X"].stock = 0
  /\ "Y" \in DOMAIN inventoryitem /\ inventoryitem["Y"].stock = 1
  /\ resp.body.out_of_stock = <<Some("X")>>
  /\ resp.body.status = "out_of_stock_external"

\* the concurrent requests of one kind that were answered 200
Succeeded(kind) ==
  Cardinality({ p \in DOMAIN proc :
                  proc[p].kind = kind /\ proc[p].pc = "done" /\ proc[p].status = 200 })
AllDone == proc # <<>> /\ \A p \in DOMAIN proc : proc[p].pc = "done"
\* what occupied_beds of A1 is when no update is lost
Expected ==
  room0["A1"].occupied_beds + Succeeded("admit") - Succeeded("discharge")
\* two admits passed the capacity test on the same value of occupied_beds
Raced ==
  \E p, q \in DOMAIN proc :
    /\ p # q
    /\ proc[p].kind = "admit" /\ proc[p].status = 200
    /\ proc[q].kind = "admit" /\ proc[q].status = 200
    /\ proc[p].seen = proc[q].seen

====
